---- MODULE Spec2Model ----
(***************************************************************************)
(* A model of the Koa project generator's configuration pipeline:          *)
(*   - InputValidator.validateProjectName        (src/src/utils/validator.ts) *)
(*   - ConfigurationManager.mergeConfigurations  (src/unnamed/part_004)    *)
(*   - ConfigurationManager.validateConfiguration (src/unnamed/part_004)   *)
(*   - InteractivePrompter.runPrompts            (src/unnamed/part_001)    *)
(*                                                                         *)
(* Strings that the code inspects character by character (project names)   *)
(* are sequences of one-character strings.  JavaScript objects with        *)
(* optional properties are functions whose DOMAIN is the set of properties *)
(* that are present; a property whose value is undefined is modelled as an *)
(* absent property (mergeConfig skips both alike).                         *)
(***************************************************************************)
EXTENDS Integers, Sequences, FiniteSets, TLC

VARIABLES
    pc,                  \* position of the operation under study
    name,                \* validateProjectName: its argument
    validationResult,    \* validateProjectName: the ValidationResult returned
    projectName,         \* mergeConfigurations: first argument
    commandLineOptions,  \* mergeConfigurations: second argument
    interactiveAnswers,  \* mergeConfigurations: third argument (or Undefined)
    configFile,          \* the file system at commandLineOptions.config
    projectConfig,       \* mergeConfigurations: the outcome (a config or an error)
    config,              \* validateConfiguration: its argument
    configValidation,    \* validateConfiguration: the {valid, errors} returned
    suggestion,          \* suggestValidName: the string returned
    targetDir,           \* the file system at path.resolve(cwd, projectName)
    thrown,              \* the Error createProject threw (or Undefined)
    stdout,              \* what the create command wrote with console.log
    stderr,              \* what the create command wrote with console.error
    exitCode,            \* the arguments of the calls of process.exit
    summary,             \* the configuration summary the create command printed
    packageJson,         \* the file system at ../../package.json
    versionInfo          \* getVersionInfo: the outcome

vars == <<pc, name, validationResult, projectName, commandLineOptions,
          interactiveAnswers, configFile, projectConfig, config, configValidation,
          suggestion, targetDir, thrown, stdout, stderr, exitCode, summary,
          packageJson, versionInfo>>

nameVars == <<name, validationResult>>
mergeVars == <<projectName, commandLineOptions, interactiveAnswers, configFile, projectConfig>>
validateVars == <<config, configValidation>>
suggestVars == <<suggestion>>
createVars == <<targetDir, thrown, stdout, stderr, exitCode, summary>>
versionVars == <<packageJson, versionInfo>>

\* The value of a variable that the operation under study does not use.
Idle == [idle |-> TRUE]

\* JavaScript's undefined, for an optional object-valued argument or result.
Undefined == [undefined |-> TRUE]

IsUndefined(v) == "undefined" \in DOMAIN v

(***************************************************************************)
(* Characters and strings                                                  *)
(***************************************************************************)
Lower == {"a", "b", "c", "d", "e", "f", "g", "h", "i", "j", "k", "l", "m", "n", "o", "p", "q", "r", "s", "t", "u", "v", "w", "x", "y", "z"}

Upper == {"A", "B", "C", "D", "E", "F", "G", "H", "I", "J", "K", "L", "M", "N", "O", "P", "Q", "R", "S", "T", "U", "V", "W", "X", "Y", "Z"}

Digit == {"0", "1", "2", "3", "4", "5", "6", "7", "8", "9"}

LowerSeq == <<"a", "b", "c", "d", "e", "f", "g", "h", "i", "j", "k", "l", "m", "n", "o", "p", "q", "r", "s", "t", "u", "v", "w", "x", "y", "z">>

UpperSeq == <<"A", "B", "C", "D", "E", "F", "G", "H", "I", "J", "K", "L", "M", "N", "O", "P", "Q", "R", "S", "T", "U", "V", "W", "X", "Y", "Z">>

\* String.prototype.trim strips these (the ASCII part of WhiteSpace and LineTerminator).
Whitespace == {" ", "\t", "\n", "\r"}

Min(S) == CHOOSE x \in S : \A y \in S : x <= y

Max(S) == CHOOSE x \in S : \A y \in S : x >= y

\* String.prototype.trim
trim(s) ==
    LET keep == {i \in 1..Len(s) : s[i] \notin Whitespace}
    IN  IF keep = {} THEN <<>> ELSE SubSeq(s, Min(keep), Max(keep))

toLowerCaseChar(c) ==
    IF c \in Upper THEN LowerSeq[CHOOSE i \in 1..Len(UpperSeq) : UpperSeq[i] = c] ELSE c

\* String.prototype.toLowerCase
toLowerCase(s) == [i \in 1..Len(s) |-> toLowerCaseChar(s[i])]

(***************************************************************************)
(* InputValidator.validateProjectName                                      *)
(***************************************************************************)
MaxNameLength == 214

MinNameLength == 1

\* the character class [a-z0-9._-] under the i flag
NameChars == Lower \cup Upper \cup Digit \cup {".", "_", "-"}

\* /^[a-z0-9._-]+$/i
MatchesNamePattern(s) == Len(s) >= 1 /\ \A i \in 1..Len(s) : s[i] \in NameChars

\* /^[._]/
StartsWithDotOrUnderscore(s) == Len(s) >= 1 /\ s[1] \in {".", "_"}

\* /[.-]$/
EndsWithDotOrDash(s) == Len(s) >= 1 /\ s[Len(s)] \in {".", "-"}

reservedNames ==
    { <<"n", "o", "d", "e", "_", "m", "o", "d", "u", "l", "e", "s">>,
      <<"f", "a", "v", "i", "c", "o", "n", ".", "i", "c", "o">>,
      <<"p", "a", "c", "k", "a", "g", "e", ".", "j", "s", "o", "n">>,
      <<"p", "a", "c", "k", "a", "g", "e", "-", "l", "o", "c", "k", ".", "j", "s", "o", "n">>,
      <<"y", "a", "r", "n", ".", "l", "o", "c", "k">>,
      <<"p", "n", "p", "m", "-", "l", "o", "c", "k", ".", "y", "a", "m", "l">>,
      <<".", "g", "i", "t">>,
      <<".", "g", "i", "t", "i", "g", "n", "o", "r", "e">>,
      <<".", "e", "n", "v">>,
      <<"c", "o", "n">>,
      <<"p", "r", "n">>,
      <<"a", "u", "x">>,
      <<"n", "u", "l">>,
      <<"c", "o", "m", "1">>,
      <<"c", "o", "m", "2">>,
      <<"c", "o", "m", "3">>,
      <<"c", "o", "m", "4">>,
      <<"c", "o", "m", "5">>,
      <<"c", "o", "m", "6">>,
      <<"c", "o", "m", "7">>,
      <<"c", "o", "m", "8">>,
      <<"c", "o", "m", "9">>,
      <<"l", "p", "t", "1">>,
      <<"l", "p", "t", "2">>,
      <<"l", "p", "t", "3">>,
      <<"l", "p", "t", "4">>,
      <<"l", "p", "t", "5">>,
      <<"l", "p", "t", "6">>,
      <<"l", "p", "t", "7">>,
      <<"l", "p", "t", "8">>,
      <<"l", "p", "t", "9">> }

\* /^@([a-z0-9._-]+)\/([a-z0-9._-]+)$/i
MatchesScopePattern(s) ==
    /\ Len(s) >= 4
    /\ s[1] = "@"
    /\ \E k \in 3..(Len(s) - 1) :
          /\ s[k] = "/"
          /\ \A i \in 2..(k - 1) : s[i] \in NameChars
          /\ \A i \in (k + 1)..Len(s) : s[i] \in NameChars

\* /[.-]{2,}/
HasConsecutiveSeparators(s) ==
    \E i \in 1..(Len(s) - 1) : s[i] \in {".", "-"} /\ s[i + 1] \in {".", "-"}

\* /[A-Z]/
HasUppercase(s) == \E i \in 1..Len(s) : s[i] \in Upper

Push(cond, code) == IF cond THEN <<code>> ELSE <<>>

\* validateProjectName stopping at the first violated rule.
validateProjectName_FirstErrorOnly(n) ==
    IF n = <<>> \/ Len(trim(n)) = 0
    THEN [valid |-> FALSE, errors |-> <<"EMPTY_NAME">>, warnings |-> <<>>]
    ELSE
      LET trimmedName == trim(n)
          all ==
                 Push(Len(trimmedName) > MaxNameLength, "NAME_TOO_LONG")
            \o   Push(Len(trimmedName) < MinNameLength, "NAME_TOO_SHORT")
            \o   Push(~MatchesNamePattern(trimmedName), "INVALID_CHARACTERS")
            \o   Push(StartsWithDotOrUnderscore(trimmedName), "INVALID_START")
            \o   Push(EndsWithDotOrDash(trimmedName), "INVALID_END")
            \o   Push(toLowerCase(trimmedName) \in reservedNames, "RESERVED_NAME")
            \o   Push(trimmedName[1] = "@" /\ ~MatchesScopePattern(trimmedName),
                      "INVALID_SCOPE_FORMAT")
            \o   Push(HasConsecutiveSeparators(trimmedName), "CONSECUTIVE_SEPARATORS")
          errors == IF all = <<>> THEN <<>> ELSE <<Head(all)>>
          warnings == Push(HasUppercase(trimmedName), "UPPERCASE_WARNING")
      IN  [valid |-> Len(errors) = 0, errors |-> errors, warnings |-> warnings]

\* validateProjectName with the length limit off by one (>= instead of >).
validateProjectName_LengthOffByOne(n) ==
    IF n = <<>> \/ Len(trim(n)) = 0
    THEN [valid |-> FALSE, errors |-> <<"EMPTY_NAME">>, warnings |-> <<>>]
    ELSE
      LET trimmedName == trim(n)
          errors ==
                 Push(Len(trimmedName) >= MaxNameLength, "NAME_TOO_LONG")
            \o   Push(Len(trimmedName) < MinNameLength, "NAME_TOO_SHORT")
            \o   Push(~MatchesNamePattern(trimmedName), "INVALID_CHARACTERS")
            \o   Push(StartsWithDotOrUnderscore(trimmedName), "INVALID_START")
            \o   Push(EndsWithDotOrDash(trimmedName), "INVALID_END")
            \o   Push(toLowerCase(trimmedName) \in reservedNames, "RESERVED_NAME")
            \o   Push(trimmedName[1] = "@" /\ ~MatchesScopePattern(trimmedName),
                      "INVALID_SCOPE_FORMAT")
            \o   Push(HasConsecutiveSeparators(trimmedName), "CONSECUTIVE_SEPARATORS")
          warnings == Push(HasUppercase(trimmedName), "UPPERCASE_WARNING")
      IN  [valid |-> Len(errors) = 0, errors |-> errors, warnings |-> warnings]

\* validateProjectName treating a warning as blocking.
validateProjectName_WarningsBlock(n) ==
    IF n = <<>> \/ Len(trim(n)) = 0
    THEN [valid |-> FALSE, errors |-> <<"EMPTY_NAME">>, warnings |-> <<>>]
    ELSE
      LET trimmedName == trim(n)
          errors ==
                 Push(Len(trimmedName) > MaxNameLength, "NAME_TOO_LONG")
            \o   Push(Len(trimmedName) < MinNameLength, "NAME_TOO_SHORT")
            \o   Push(~MatchesNamePattern(trimmedName), "INVALID_CHARACTERS")
            \o   Push(StartsWithDotOrUnderscore(trimmedName), "INVALID_START")
            \o   Push(EndsWithDotOrDash(trimmedName), "INVALID_END")
            \o   Push(toLowerCase(trimmedName) \in reservedNames, "RESERVED_NAME")
            \o   Push(trimmedName[1] = "@" /\ ~MatchesScopePattern(trimmedName),
                      "INVALID_SCOPE_FORMAT")
            \o   Push(HasConsecutiveSeparators(trimmedName), "CONSECUTIVE_SEPARATORS")
          warnings == Push(HasUppercase(trimmedName), "UPPERCASE_WARNING")
      IN  [valid |-> Len(errors) = 0 /\ Len(warnings) = 0,
           errors |-> errors, warnings |-> warnings]

validateProjectName(n) ==
    IF n = <<>> \/ Len(trim(n)) = 0
    THEN [valid |-> FALSE, errors |-> <<"EMPTY_NAME">>, warnings |-> <<>>]
    ELSE
      LET trimmedName == trim(n)
          errors ==
                 Push(Len(trimmedName) > MaxNameLength, "NAME_TOO_LONG")
            \o   Push(Len(trimmedName) < MinNameLength, "NAME_TOO_SHORT")
            \o   Push(~MatchesNamePattern(trimmedName), "INVALID_CHARACTERS")
            \o   Push(StartsWithDotOrUnderscore(trimmedName), "INVALID_START")
            \o   Push(EndsWithDotOrDash(trimmedName), "INVALID_END")
            \o   Push(toLowerCase(trimmedName) \in reservedNames, "RESERVED_NAME")
            \o   Push(trimmedName[1] = "@" /\ ~MatchesScopePattern(trimmedName),
                      "INVALID_SCOPE_FORMAT")
            \o   Push(HasConsecutiveSeparators(trimmedName), "CONSECUTIVE_SEPARATORS")
          warnings == Push(HasUppercase(trimmedName), "UPPERCASE_WARNING")
      IN  [valid |-> Len(errors) = 0, errors |-> errors, warnings |-> warnings]

(***************************************************************************)
(* InputValidator.suggestValidName                                         *)
(***************************************************************************)
\* suggestion.replace(/[^a-z0-9._-]/g, '-')
replaceInvalidCharacters(s) ==
    [i \in 1..Len(s) |-> IF s[i] \in Lower \cup Digit \cup {".", "_", "-"} THEN s[i] ELSE "-"]

\* suggestion.replace(/^[._]+/, '')
removeLeadingDotsAndUnderscores(s) ==
    LET kept == {i \in 1..Len(s) : s[i] \notin {".", "_"}}
    IN  IF kept = {} THEN <<>> ELSE SubSeq(s, Min(kept), Len(s))

\* suggestion.replace(/[.-]+$/, '')
removeTrailingDotsAndDashes(s) ==
    LET kept == {i \in 1..Len(s) : s[i] \notin {".", "-"}}
    IN  IF kept = {} THEN <<>> ELSE SubSeq(s, 1, Max(kept))

\* suggestion.replace(/[._-]+/g, '-') : each maximal run becomes one dash
\* (computed on the two halves of the string; a run that spans the cut leaves
\* a dash on both sides, of which one is kept)
RECURSIVE replaceConsecutiveSeparators(_)
replaceConsecutiveSeparators(s) ==
    IF s = <<>> THEN <<>>
    ELSE IF Len(s) = 1 THEN (IF s[1] \in {".", "_", "-"} THEN <<"-">> ELSE s)
    ELSE LET half == Len(s) \div 2
             left == replaceConsecutiveSeparators(SubSeq(s, 1, half))
             right == replaceConsecutiveSeparators(SubSeq(s, half + 1, Len(s)))
         IN  IF left[Len(left)] = "-" /\ right[1] = "-"
             THEN left \o Tail(right)
             ELSE left \o right

\* 'my-koa-app'
DefaultSuggestion == <<"m", "y", "-", "k", "o", "a", "-", "a", "p", "p">>

\* 'app-'
AppPrefix == <<"a", "p", "p", "-">>

\* the value of `suggestion` before the emptiness test of suggestValidName
cleanedSuggestion(invalidName) ==
    replaceConsecutiveSeparators(
        removeTrailingDotsAndDashes(
            removeLeadingDotsAndUnderscores(
                replaceInvalidCharacters(toLowerCase(trim(invalidName))))))

\* suggestValidName without the 'app-' prefix for a leading digit.
suggestValidName_NoDigitPrefix(invalidName) ==
    LET cleaned == cleanedSuggestion(invalidName)
    IN  IF cleaned = <<>> THEN DefaultSuggestion ELSE cleaned

suggestValidName(invalidName) ==
    LET cleaned == cleanedSuggestion(invalidName)
        nonEmpty == IF cleaned = <<>> THEN DefaultSuggestion ELSE cleaned
    IN  IF Head(nonEmpty) \in Digit THEN AppPrefix \o nonEmpty ELSE nonEmpty

(***************************************************************************)
(* JavaScript objects                                                      *)
(***************************************************************************)
\* {} : the object without properties
Empty == [k \in {} |-> TRUE]

Has(o, k) == k \in DOMAIN o

\* {...a, ...b}
Spread(a, b) == [k \in DOMAIN a \cup DOMAIN b |-> IF k \in DOMAIN b THEN b[k] ELSE a[k]]

\* o.k || d  for a string property: absent (undefined) and "" are falsy
OrString(o, k, d) == IF Has(o, k) /\ o[k] # "" THEN o[k] ELSE d

\* o.k || d  for a numeric property: absent (undefined) and 0 are falsy
OrNumber(o, k, d) == IF Has(o, k) /\ o[k] # 0 THEN o[k] ELSE d

\* if (cond) config.k = v
Assign(cond, k, v) == IF cond THEN k :> v ELSE Empty

(***************************************************************************)
(* InteractivePrompter                                                     *)
(***************************************************************************)
FeatureKeys == {"logging", "cors", "helmet", "rateLimit", "swagger", "redis"}

MysqlPort == 3306

\* the port convertConfigFileFormat falls back to for every database type
ConfigFileDatabasePort == 3306

\* the port convertConfigFileFormat falls back to for the cache
ConfigFileCachePort == 6379

PostgresqlPort == 5432

MongodbPort == 27017

RedisPort == 6379

getDefaultPort(databaseType) ==
    CASE databaseType = "mysql" -> MysqlPort
      [] databaseType = "postgresql" -> PostgresqlPort
      [] databaseType = "mongodb" -> MongodbPort
      [] OTHER -> MysqlPort

\* input({default}) : the typed text when the user typed one, else the default
InputOrDefault(u, k, d) == IF Has(u, k) THEN u[k] ELSE d

\* runPrompts, as a function of what the user selects and types (u); a prompt
\* the user leaves at its default is a property absent from u.
runPrompts(u) ==
    LET template == u.template
        typescript == u.typescript
        selectedFeatures == u.selectedFeatures
        features == [f \in FeatureKeys |-> f \in selectedFeatures]
        asksBackend == template = "api" \/ template = "fullstack"
        databaseType == InputOrDefault(u, "databaseType", "none")
        database ==
            [type |-> databaseType,
             host |-> InputOrDefault(u, "databaseHost", "localhost"),
             port |-> InputOrDefault(u, "databasePort", getDefaultPort(databaseType)),
             database |-> InputOrDefault(u, "databaseName", "myapp")]
        cache ==
            [type |-> "redis",
             host |-> InputOrDefault(u, "redisHost", "localhost"),
             port |-> InputOrDefault(u, "redisPort", RedisPort),
             database |-> InputOrDefault(u, "redisDatabase", 0)]
        authType == InputOrDefault(u, "authType", "none")
        authentication ==
            IF authType = "jwt"
            THEN [type |-> authType, expiresIn |-> InputOrDefault(u, "expiresIn", "7d")]
            ELSE [type |-> authType]
    IN  [template |-> template, features |-> features, typescript |-> typescript,
         packageManager |-> InputOrDefault(u, "packageManager", "pnpm"),
         installDependencies |-> InputOrDefault(u, "installDependencies", TRUE),
         initGit |-> InputOrDefault(u, "initGit", TRUE)]
        @@ Assign(asksBackend /\ databaseType # "none", "database", database)
        @@ Assign(features.redis, "cache", cache)
        @@ Assign(asksBackend /\ authType # "none", "authentication", authentication)

(***************************************************************************)
(* ConfigurationManager                                                    *)
(***************************************************************************)
\* the literal that convertConfigFileFormat spreads configData.features over
ConfigFileFeatureDefaults ==
    [logging |-> TRUE, cors |-> TRUE, helmet |-> TRUE,
     rateLimit |-> FALSE, swagger |-> FALSE, redis |-> FALSE]

convertConfigFileFormat(configData) ==
       Assign(Has(configData, "template") /\ configData.template # "",
              "template", configData.template)
    @@ Assign(Has(configData, "typescript"), "typescript", configData.typescript)
    @@ Assign(Has(configData, "packageManager") /\ configData.packageManager # "",
              "packageManager", configData.packageManager)
    @@ Assign(Has(configData, "features"), "features",
              Spread(ConfigFileFeatureDefaults, configData.features))
    @@ Assign(Has(configData, "database"), "database",
              [type |-> OrString(configData.database, "type", "mysql"),
               host |-> OrString(configData.database, "host", "localhost"),
               port |-> OrNumber(configData.database, "port", ConfigFileDatabasePort),
               database |-> OrString(configData.database, "database", "myapp")])
    @@ Assign(Has(configData, "cache"), "cache",
              [type |-> "redis",
               host |-> OrString(configData.cache, "host", "localhost"),
               port |-> OrNumber(configData.cache, "port", ConfigFileCachePort),
               database |-> OrNumber(configData.cache, "database", 0)])
    @@ Assign(Has(configData, "authentication"), "authentication",
              [type |-> OrString(configData.authentication, "type", "jwt"),
               expiresIn |-> OrString(configData.authentication, "expiresIn", "7d")])

convertCommandLineOptions(options) ==
       Assign(Has(options, "template") /\ options.template # "",
              "template", options.template)
    @@ Assign(Has(options, "typescript"), "typescript", options.typescript)
    @@ Assign(Has(options, "packageManager") /\ options.packageManager # "",
              "packageManager", options.packageManager)

\* convertInteractiveAnswers forgetting the authentication answers.
convertInteractiveAnswers_NoAuthentication(answers) ==
    [k \in DOMAIN answers \cap {"template", "features", "typescript", "packageManager",
                                "database", "cache"} |-> answers[k]]

convertInteractiveAnswers(answers) ==
    [k \in DOMAIN answers \cap {"template", "features", "typescript", "packageManager",
                                "database", "cache", "authentication"} |-> answers[k]]

NestedKeys == {"features", "database", "cache", "authentication"}

\* mergeConfig(target, source): the target after the loop over the source's keys
mergeConfig(target, source) ==
    [key \in DOMAIN target \cup DOMAIN source |->
        IF ~Has(source, key) THEN target[key]
        ELSE IF key \in NestedKeys
             THEN Spread(IF Has(target, key) THEN target[key] ELSE Empty, source[key])
             ELSE source[key]]

\* applyConfigurationPriority merging the config file last, over the command line.
applyConfigurationPriority_ConfigFileLast(configs) ==
    mergeConfig(mergeConfig(mergeConfig(Empty, configs.interactive),
                            configs.commandLine),
                configs.configFile)

applyConfigurationPriority(configs) ==
    mergeConfig(mergeConfig(mergeConfig(Empty, configs.interactive),
                            configs.configFile),
                configs.commandLine)

\* path.extname: from the last '.' of the last path segment, '' when there is none
extname(path) ==
    LET slashes == {i \in 1..Len(path) : path[i] = "/"}
        base == IF slashes = {} THEN path ELSE SubSeq(path, Max(slashes) + 1, Len(path))
        dots == {i \in 2..Len(base) : base[i] = "."}
    IN  IF dots = {} THEN <<>> ELSE SubSeq(base, Max(dots), Len(base))

JsonExt == <<".", "j", "s", "o", "n">>

YamlExt == <<".", "y", "a", "m", "l">>

YmlExt == <<".", "y", "m", "l">>

\* the text every error of loadConfigFile starts with
ParseFailedPrefix == "config file parse failed: "

\* loadConfigFile comparing the extension without lowering its case.
loadConfigFile_CaseSensitive(file, configPath) ==
    LET ext == extname(configPath)
        fail(cause) == [threw |-> TRUE, message |-> <<ParseFailedPrefix, cause>>]
    IN  IF ~file.exists THEN fail("config file does not exist")
        ELSE IF ext \notin {JsonExt, YamlExt, YmlExt} THEN fail("unsupported config file format")
        ELSE IF ~file.parses THEN fail("parser exception")
        ELSE IF IsUndefined(file.data) THEN fail("cannot read properties of a non-object")
        ELSE [threw |-> FALSE, value |-> convertConfigFileFormat(file.data)]

\* loadConfigFile(configPath), reading the file system entry `file` found at
\* configPath; the outcome is a value or a thrown Error (its message is the
\* prefix followed by the message of the underlying failure).
loadConfigFile(file, configPath) ==
    LET ext == toLowerCase(extname(configPath))
        fail(cause) == [threw |-> TRUE, message |-> <<ParseFailedPrefix, cause>>]
    IN  IF ~file.exists THEN fail("config file does not exist")
        ELSE IF ext \notin {JsonExt, YamlExt, YmlExt} THEN fail("unsupported config file format")
        ELSE IF ~file.parses THEN fail("parser exception")
        ELSE IF IsUndefined(file.data) THEN fail("cannot read properties of a non-object")
        ELSE [threw |-> FALSE, value |-> convertConfigFileFormat(file.data)]

\* the literal that mergeConfigurations spreads mergedConfig.features over
FinalFeatureDefaults ==
    [logging |-> TRUE, cors |-> TRUE, helmet |-> TRUE,
     rateLimit |-> FALSE, swagger |-> FALSE, redis |-> FALSE]

mergeConfigurations(pName, options, answers, file) ==
    LET loaded ==
            IF Has(options, "config") /\ options.config # <<>>
            THEN loadConfigFile(file, options.config)
            ELSE [threw |-> FALSE, value |-> Empty]
    IN  IF loaded.threw THEN loaded
        ELSE
          LET configFileOptions == loaded.value
              commandLineConfig == convertCommandLineOptions(options)
              interactiveConfig ==
                  IF IsUndefined(answers) THEN Empty ELSE convertInteractiveAnswers(answers)
              mergedConfig ==
                  applyConfigurationPriority(
                      [commandLine |-> commandLineConfig,
                       configFile |-> configFileOptions,
                       interactive |-> interactiveConfig])
              finalConfig ==
                  [name |-> pName,
                   template |-> OrString(mergedConfig, "template", "basic"),
                   features |-> Spread(FinalFeatureDefaults,
                                       IF Has(mergedConfig, "features")
                                       THEN mergedConfig.features ELSE Empty),
                   packageManager |-> OrString(mergedConfig, "packageManager", "pnpm"),
                   typescript |-> IF Has(mergedConfig, "typescript")
                                  THEN mergedConfig.typescript ELSE TRUE]
                  @@ Assign(Has(mergedConfig, "database"), "database", mergedConfig.database)
                  @@ Assign(Has(mergedConfig, "cache"), "cache", mergedConfig.cache)
                  @@ Assign(Has(mergedConfig, "authentication"), "authentication",
                            mergedConfig.authentication)
          IN  [threw |-> FALSE, value |-> finalConfig]

MinPort == 1

MaxPort == 65535

\* A port that is not a number: the string 'abc' that JSON.parse returns for
\* {"port": "abc"} and that the cast to ConfigFileFormat lets through.  It is
\* truthy, and ToNumber turns it into NaN, so that it is neither less nor
\* greater than any number.
NonNumericPort == -999

\* a < b and a > b as JavaScript evaluates them for a number b
Less(a, b) == a # NonNumericPort /\ a < b

Greater(a, b) == a # NonNumericPort /\ a > b

\* if (cond) errors.push(error)
PushError(cond, error) == IF cond THEN <<error>> ELSE <<>>

\* validateConfiguration stopping at the first violated rule.
validateConfiguration_FirstErrorOnly(c) ==
    LET all ==
               PushError(c.name = <<>> \/ trim(c.name) = <<>>, [rule |-> "name"])
            \o PushError(c.template \notin {"basic", "api", "fullstack"},
                         [rule |-> "template", text |-> c.template])
            \o PushError(c.packageManager \notin {"npm", "yarn", "pnpm"},
                         [rule |-> "packageManager", text |-> c.packageManager])
            \o (IF Has(c, "database")
                THEN PushError(c.database.type \notin {"mysql", "postgresql", "mongodb"},
                               [rule |-> "database.type", text |-> c.database.type])
                  \o PushError(Less(c.database.port, MinPort) \/ Greater(c.database.port, MaxPort),
                               [rule |-> "database.port", number |-> c.database.port])
                ELSE <<>>)
            \o (IF Has(c, "cache")
                THEN PushError(c.cache.type # "redis",
                               [rule |-> "cache.type", text |-> c.cache.type])
                  \o PushError(Less(c.cache.port, MinPort) \/ Greater(c.cache.port, MaxPort),
                               [rule |-> "cache.port", number |-> c.cache.port])
                ELSE <<>>)
            \o (IF Has(c, "authentication")
                THEN PushError(c.authentication.type \notin {"jwt", "session"},
                               [rule |-> "authentication.type", text |-> c.authentication.type])
                ELSE <<>>)
        errors == IF all = <<>> THEN <<>> ELSE <<Head(all)>>
    IN  [valid |-> Len(errors) = 0, errors |-> errors]

\* validateConfiguration(config): each error is the rule it reports and the
\* offending value its message quotes.
validateConfiguration(c) ==
    LET errors ==
               PushError(c.name = <<>> \/ trim(c.name) = <<>>, [rule |-> "name"])
            \o PushError(c.template \notin {"basic", "api", "fullstack"},
                         [rule |-> "template", text |-> c.template])
            \o PushError(c.packageManager \notin {"npm", "yarn", "pnpm"},
                         [rule |-> "packageManager", text |-> c.packageManager])
            \o (IF Has(c, "database")
                THEN PushError(c.database.type \notin {"mysql", "postgresql", "mongodb"},
                               [rule |-> "database.type", text |-> c.database.type])
                  \o PushError(Less(c.database.port, MinPort) \/ Greater(c.database.port, MaxPort),
                               [rule |-> "database.port", number |-> c.database.port])
                ELSE <<>>)
            \o (IF Has(c, "cache")
                THEN PushError(c.cache.type # "redis",
                               [rule |-> "cache.type", text |-> c.cache.type])
                  \o PushError(Less(c.cache.port, MinPort) \/ Greater(c.cache.port, MaxPort),
                               [rule |-> "cache.port", number |-> c.cache.port])
                ELSE <<>>)
            \o (IF Has(c, "authentication")
                THEN PushError(c.authentication.type \notin {"jwt", "session"},
                               [rule |-> "authentication.type", text |-> c.authentication.type])
                ELSE <<>>)
    IN  [valid |-> Len(errors) = 0, errors |-> errors]

(***************************************************************************)
(* The create command: commander's options, createProject's helpers and    *)
(* the error handler                                                       *)
(***************************************************************************)
\* The options object commander hands to the action, from the flags the user
\* typed: --template has the default 'basic', --no-git makes git false (it is
\* true otherwise), a flag that was not typed leaves its option undefined.
parseOptions(flags) ==
       [template |-> IF Has(flags, "template") THEN flags.template ELSE "basic",
        git |-> ~Has(flags, "noGit")]
    @@ Assign(Has(flags, "config"), "config", flags.config)
    @@ Assign(Has(flags, "skipInstall"), "skipInstall", TRUE)
    @@ Assign(Has(flags, "packageManager"), "packageManager", flags.packageManager)
    @@ Assign(Has(flags, "typescript"), "typescript", TRUE)
    @@ Assign(Has(flags, "force"), "force", TRUE)

\* options.force, undefined being falsy
Force(options) == Has(options, "force") /\ options.force

\* options.config, undefined and '' being falsy
HasConfig(options) == Has(options, "config") /\ options.config # <<>>

\* a needsInteractiveInput that always asks for the prompts
needsInteractiveInput_Always(options) == TRUE

\* needsInteractiveInput: false with a config path, true without
needsInteractiveInput(options) == ~HasConfig(options)

\* new Error(message): message is a text followed by the value it quotes
Error(text, detail) == [name |-> "Error", message |-> <<text, detail>>]

\* InteractivePrompter.displayConfigSummary(answers): the lines of the summary
\* that show the template, TypeScript, the package manager, the installation
\* of the dependencies and Git (the lines of the features, the database, the
\* cache and the authentication are printed from the same object)
InteractivePrompter_displayConfigSummary(answers) ==
    [template |-> answers.template,
     typescript |-> answers.typescript,
     packageManager |-> answers.packageManager,
     installDependencies |-> answers.installDependencies,
     initGit |-> answers.initGit]

\* displayConfigSummary(config) of create.ts: the lines that show the name, the
\* template, TypeScript and the package manager
displayConfigSummary(c) ==
    [name |-> c.name,
     template |-> c.template,
     typescript |-> c.typescript,
     packageManager |-> c.packageManager]

\* checkDirectoryConflict letting an existing directory pass without --force.
checkDirectoryConflict_IgnoreExisting(dir, force) ==
    IF dir = "existing" /\ force
    THEN [threw |-> FALSE, dir |-> "removed"]
    ELSE [threw |-> FALSE, dir |-> dir]

\* checkDirectoryConflict(targetPath, force) on a target that is "absent" or
\* "existing": the outcome and the target afterwards ("removed" by fs.remove).
checkDirectoryConflict(dir, force) ==
    IF dir = "existing"
    THEN IF force
         THEN [threw |-> FALSE, dir |-> "removed"]
         ELSE [threw |-> TRUE, dir |-> dir]
    ELSE [threw |-> FALSE, dir |-> dir]

getErrorCode(error) ==
    CASE error.name = "ValidationError" -> "VALIDATION_ERROR"
      [] error.name = "FileSystemError" -> "FILESYSTEM_ERROR"
      [] error.name = "NetworkError" -> "NETWORK_ERROR"
      [] OTHER -> "UNKNOWN_ERROR"

\* handleError(error, context): the FormattedError, without its stack,
\* suggestions and timestamp
handleError(error, context) ==
    [code |-> getErrorCode(error), message |-> error.message, context |-> context]

\* a line written by console.error or console.warn outside the error handler
Line(text) == [code |-> "", message |-> <<text>>]

\* a logError that writes the code without the message
logError_CodeOnly(formattedError) ==
    [code |-> formattedError.code, message |-> <<>>]

\* logError(formattedError): the line `[code] message`
logError(formattedError) ==
    [code |-> formattedError.code, message |-> formattedError.message]

(***************************************************************************)
(* getVersionInfo                                                          *)
(***************************************************************************)
\* What JSON.parse returns: a value tagged with its JavaScript type.
JsonString(text) == [type |-> "string", value |-> text]

JsonNumber(n) == [type |-> "number", value |-> n]

JsonBoolean(b) == [type |-> "boolean", value |-> b]

JsonNull == [type |-> "null"]

JsonObject(fields) == [type |-> "object", fields |-> fields]

\* ToBoolean, as the operator || applies it
Truthy(v) ==
    CASE v.type = "string" -> v.value # ""
      [] v.type = "number" -> v.value # 0
      [] v.type = "boolean" -> v.value
      [] v.type = "null" -> FALSE
      [] v.type = "object" -> TRUE

\* '1.0.0'
DefaultVersion == JsonString("1.0.0")

\* getVersionInfo(), reading the file system entry `file` found at
\* ../../package.json at the time `now`; `warned` tells whether the catch block
\* ran (it writes one console.warn line).
getVersionInfo(file, now) ==
    LET caught ==
            \/ ~file.readable            \* fs.readFileSync throws
            \/ ~file.parses              \* JSON.parse throws
            \/ file.data.type = "null"   \* reading .version of null throws
        packageJson_version ==
            IF file.data.type = "object" /\ Has(file.data.fields, "version")
            THEN file.data.fields.version
            ELSE JsonNull                \* undefined
        cliVersion ==
            IF caught THEN DefaultVersion
            ELSE IF Truthy(packageJson_version) THEN packageJson_version
            ELSE DefaultVersion
    IN  [cliVersion |-> cliVersion,
         templatesVersion |-> "1.0.0",
         lastUpdateCheck |-> now,
         warned |-> caught]

(***************************************************************************)
(* Project names the validator is run on                                   *)
(***************************************************************************)
MaxShortName == 4

NameAlphabet == {"c", "o", "n", "C", "1", ".", "-", "_", "@", "/", " "}

ShortNames == UNION {[1..k -> NameAlphabet] : k \in 0..MaxShortName}

SampleNames ==
    { <<"m", "y", "-", "a", "p", "p">>,
      <<"M", "y", "-", "A", "p", "p">>,
      <<"n", "o", "d", "e", "_", "m", "o", "d", "u", "l", "e", "s">>,
      <<"N", "O", "D", "E", "_", "M", "O", "D", "U", "L", "E", "S">>,
      <<".", "g", "i", "t">>,
      <<"C", "O", "N">>,
      <<"C", "o", "n">>,
      <<"c", "o", "m", "1">>,
      <<"m", "y", "-", "-", "a", "p", "p">>,
      <<"M", "y", "-", "-", "A", "p", "p", "!">>,
      <<"m", "y", "-", "a", "p", "p", "-">>,
      <<".", "m", "y", "-", "a", "p", "p">>,
      <<"_", "x">>,
      <<"@", "m", "y", "o", "r", "g", "/", "m", "y", "-", "p", "a", "c", "k", "a", "g", "e">>,
      <<"@", "m", "y", "o", "r", "g">>,
      <<"a", "@", "b">>,
      <<"m", "y", "_", "a", "p", "p">>,
      <<".", "e", "n", "v">>,
      <<" ", "m", "y", "-", "a", "p", "p">>,
      <<"m", "y", "-", "a", "p", "p", " ">>,
      <<"m", "y", " ", "a", "p", "p">>,
      <<"a", ".", ".", "b">>,
      <<"a", ".", "-", "b">>,
      <<"a", "_", "-", "b">>,
      <<".", ".">>,
      <<"@", "a", "/", "b", "/", "c">>,
      <<"@", "/", "b">>,
      <<"@", "a", "/">>,
      <<"@", ".", "a", "/", "b", "-">>,
      <<"9", "l", "i", "v", "e", "s">> }

Repeat(c, k) == [i \in 1..k |-> c]

LongNameTails == {<<>>, <<"-">>, <<"A">>, <<" ">>, <<"!">>, <<".", ".">>, <<"_">>}

\* names around the length limit: 213 .. 216 characters before trimming
LongNames ==
    {Repeat("a", k) \o t : k \in (MaxNameLength - 1)..(MaxNameLength + 1), t \in LongNameTails}

Names == ShortNames \cup SampleNames \cup LongNames

\* The variables of the operations that a specification does not exercise.
NameIdle == name = Idle /\ validationResult = Idle

MergeIdle ==
    /\ projectName = Idle
    /\ commandLineOptions = Idle
    /\ interactiveAnswers = Idle
    /\ configFile = Idle
    /\ projectConfig = Idle

ValidateIdle == config = Idle /\ configValidation = Idle

SuggestIdle == suggestion = Idle

CreateIdle ==
    /\ targetDir = Idle
    /\ thrown = Idle
    /\ stdout = Idle
    /\ stderr = Idle
    /\ exitCode = Idle
    /\ summary = Idle

VersionIdle == packageJson = Idle /\ versionInfo = Idle

(***************************************************************************)
(* Arguments mergeConfigurations is called with                            *)
(***************************************************************************)
\* the objects with at most the property k, its value drawn from V
OptionalField(k, V) == {Empty} \cup {k :> v : v \in V}

ProjectNames == {<<"m", "y", "-", "a", "p", "p">>, <<"a", "p", "i">>}

JsonPath == <<"k", "o", "a", ".", "j", "s", "o", "n">>

ConfigPaths ==
    { JsonPath,
      <<"k", "o", "a", ".", "y", "a", "m", "l">>,
      <<"k", "o", "a", ".", "y", "m", "l">>,
      <<"K", "O", "A", ".", "J", "S", "O", "N">>,
      <<"k", "o", "a", ".", "t", "o", "m", "l">>,
      <<"c", ".", "d", "/", "k", "o", "a">>,
      <<"k", "o", "a", "r", "c">>,
      <<".", "j", "s", "o", "n">> }

\* what the file system holds at the config path
MissingFile == [exists |-> FALSE]

UnparsableFile == [exists |-> TRUE, parses |-> FALSE]

\* a file holding the document null (JSON) or nothing at all (YAML)
NullFile == [exists |-> TRUE, parses |-> TRUE, data |-> Undefined]

FileWith(configData) == [exists |-> TRUE, parses |-> TRUE, data |-> configData]

\* command-line options, scalar fields varied
ScalarCommandLines ==
    {t @@ ts @@ pm :
        t \in OptionalField("template", {"", "api", "bad"}),
        ts \in OptionalField("typescript", BOOLEAN),
        pm \in OptionalField("packageManager", {"", "npm"})}

ScalarConfigData ==
    {t @@ ts @@ pm :
        t \in OptionalField("template", {"", "basic", "fullstack"}),
        ts \in OptionalField("typescript", BOOLEAN),
        pm \in OptionalField("packageManager", {"yarn"})}

ScalarAnswers ==
    {t @@ ts @@ pm :
        t \in OptionalField("template", {"basic"}),
        ts \in OptionalField("typescript", BOOLEAN),
        pm \in OptionalField("packageManager", {"", "npm"})}

\* config-file sections, nested objects varied
ConfigFeatures ==
    { Empty,
      [redis |-> TRUE],
      [cors |-> FALSE, redis |-> FALSE],
      [logging |-> FALSE],
      [logging |-> FALSE, cors |-> FALSE, helmet |-> FALSE,
       rateLimit |-> TRUE, swagger |-> TRUE, redis |-> TRUE] }

ConfigDatabases ==
    { Empty,
      [type |-> "postgresql"],
      [type |-> "mongodb", port |-> 99999],
      [port |-> 0],
      [type |-> "mysql", host |-> "db.internal", port |-> 3307, database |-> "shop"] }

ConfigCaches ==
    { Empty,
      [port |-> 0],
      [host |-> "cache.internal", port |-> 6380, database |-> 3] }

ConfigAuthentications ==
    { Empty,
      [type |-> "session"],
      [type |-> "jwt", expiresIn |-> "1h"] }

NestedConfigData ==
    {f @@ d @@ c @@ a :
        f \in OptionalField("features", ConfigFeatures),
        d \in OptionalField("database", ConfigDatabases),
        c \in OptionalField("cache", ConfigCaches),
        a \in OptionalField("authentication", ConfigAuthentications)}

\* interactive answers, nested objects varied
AnswerFeatures ==
    { [logging |-> TRUE, cors |-> TRUE, helmet |-> TRUE,
       rateLimit |-> FALSE, swagger |-> FALSE, redis |-> FALSE],
      [logging |-> FALSE, cors |-> TRUE, helmet |-> TRUE,
       rateLimit |-> FALSE, swagger |-> FALSE, redis |-> FALSE],
      [logging |-> FALSE, cors |-> FALSE, helmet |-> FALSE,
       rateLimit |-> TRUE, swagger |-> TRUE, redis |-> TRUE] }

AnswerDatabases ==
    { [type |-> "postgresql", host |-> "pg.local", port |-> 5433, database |-> "orders"],
      [type |-> "mongodb", host |-> "localhost", port |-> 27017, database |-> "myapp"] }

AnswerCaches ==
    { [type |-> "redis", host |-> "redis.local", port |-> 7000, database |-> 2] }

AnswerAuthentications ==
    { [type |-> "session"],
      [type |-> "jwt", expiresIn |-> "12h"] }

AnswerScalars ==
    [template |-> "basic", typescript |-> TRUE, packageManager |-> "npm",
     installDependencies |-> TRUE, initGit |-> FALSE]

NestedAnswers ==
    {AnswerScalars @@ f @@ d @@ c @@ a :
        f \in OptionalField("features", AnswerFeatures),
        d \in OptionalField("database", AnswerDatabases),
        c \in OptionalField("cache", AnswerCaches),
        a \in OptionalField("authentication", AnswerAuthentications)}

\* what a user may select and type at the prompts
UserInputs ==
    {[template |-> t, typescript |-> ts, selectedFeatures |-> sf] @@ dt @@ dp @@ at @@ pm :
        t \in {"basic", "api"},
        ts \in BOOLEAN,
        sf \in {{"logging", "cors", "helmet"}, {"redis"}, {}},
        dt \in OptionalField("databaseType", {"mysql", "postgresql", "mongodb"}),
        dp \in OptionalField("databasePort", {3307}),
        at \in OptionalField("authType", {"jwt", "session"}),
        pm \in OptionalField("packageManager", {"npm"})}

PromptedAnswers == {runPrompts(u) : u \in UserInputs}

\* --config <path> was given and the file system holds `file` there
WithConfig(options, path) == options @@ ("config" :> path)

(***************************************************************************)
(* Specification of mergeConfigurations                                    *)
(***************************************************************************)
\* every combination of the scalar fields of the three sources
ScalarInputs ==
    /\ projectName = <<"m", "y", "-", "a", "p", "p">>
    /\ interactiveAnswers \in {Undefined} \cup ScalarAnswers
    /\ \E options \in ScalarCommandLines :
          \/ /\ commandLineOptions = options
             /\ configFile = MissingFile
          \/ \E configData \in ScalarConfigData :
                /\ commandLineOptions = WithConfig(options, JsonPath)
                /\ configFile = FileWith(configData)

\* every combination of the nested objects of the config file and the answers
NestedInputs ==
    /\ projectName = <<"a", "p", "i">>
    /\ interactiveAnswers \in {Undefined} \cup NestedAnswers
    /\ \E options \in {Empty, [template |-> "api", typescript |-> FALSE]} :
          \/ /\ commandLineOptions = options
             /\ configFile = MissingFile
          \/ \E configData \in NestedConfigData :
                /\ commandLineOptions = WithConfig(options, JsonPath)
                /\ configFile = FileWith(configData)

\* every config path with every state of the file behind it
FileInputs ==
    /\ projectName \in ProjectNames
    /\ interactiveAnswers \in {Undefined, AnswerScalars}
    /\ configFile \in {MissingFile, UnparsableFile, NullFile,
                       FileWith([template |-> "api", features |-> [redis |-> TRUE]])}
    /\ \E options \in {Empty, [template |-> "fullstack"]}, path \in ConfigPaths \cup {<<>>} :
          commandLineOptions = WithConfig(options, path)

\* answers collected by runPrompts, merged with a config file and options
PromptedInputs ==
    /\ projectName \in ProjectNames
    /\ interactiveAnswers \in PromptedAnswers
    /\ \E options \in {Empty, [template |-> "api"]} :
          \/ /\ commandLineOptions = options
             /\ configFile = MissingFile
          \/ \E configData \in {[features |-> [redis |-> TRUE]],
                                [database |-> [type |-> "postgresql"]]} :
                /\ commandLineOptions = WithConfig(options, JsonPath)
                /\ configFile = FileWith(configData)

InitMerge ==
    /\ pc = "merge"
    /\ projectConfig = Idle
    /\ NameIdle
    /\ ValidateIdle
    /\ SuggestIdle
    /\ CreateIdle
    /\ VersionIdle
    /\ \/ ScalarInputs
       \/ NestedInputs
       \/ FileInputs
       \/ PromptedInputs

MergeConfigurations ==
    /\ pc = "merge"
    /\ projectConfig' = mergeConfigurations(projectName, commandLineOptions,
                                            interactiveAnswers, configFile)
    /\ pc' = IF projectConfig'.threw THEN "failed" ELSE "merged"
    /\ UNCHANGED <<projectName, commandLineOptions, interactiveAnswers, configFile,
                   nameVars, validateVars, suggestVars, createVars, versionVars>>

NextMerge == MergeConfigurations

SpecMerge == InitMerge /\ [][NextMerge]_vars

(***************************************************************************)
(* Specification of the name validator                                     *)
(***************************************************************************)
InitName ==
    /\ pc = "name"
    /\ name \in Names
    /\ validationResult = Idle
    /\ MergeIdle
    /\ ValidateIdle
    /\ SuggestIdle
    /\ CreateIdle
    /\ VersionIdle

ValidateProjectName ==
    /\ pc = "name"
    /\ validationResult' = validateProjectName(name)
    /\ pc' = "validated"
    /\ UNCHANGED <<name, mergeVars, validateVars, suggestVars, createVars, versionVars>>

NextName == ValidateProjectName

SpecName == InitName /\ [][NextName]_vars

(***************************************************************************)
(* Specification of suggestValidName: a name is turned into a suggestion,  *)
(* and the suggestion is validated as a project name                       *)
(***************************************************************************)
InitSuggest ==
    /\ pc = "suggest"
    /\ name \in Names
    /\ suggestion = Idle
    /\ validationResult = Idle
    /\ MergeIdle
    /\ ValidateIdle
    /\ CreateIdle
    /\ VersionIdle

SuggestValidName ==
    /\ pc = "suggest"
    /\ suggestion' = suggestValidName(name)
    /\ pc' = "suggested"
    /\ UNCHANGED <<nameVars, mergeVars, validateVars, createVars, versionVars>>

ValidateSuggestion ==
    /\ pc = "suggested"
    /\ validationResult' = validateProjectName(suggestion)
    /\ pc' = "revalidated"
    /\ UNCHANGED <<name, suggestion, mergeVars, validateVars, createVars, versionVars>>

NextSuggest == SuggestValidName \/ ValidateSuggestion

SpecSuggest == InitSuggest /\ [][NextSuggest]_vars

(***************************************************************************)
(* Specification of getVersionInfo                                         *)
(***************************************************************************)
MaxClock == 4

\* the values a package.json may give to "version"
VersionValues ==
    { JsonString(""), JsonString("1.0.0"), JsonString("2.3.1"), JsonString("0.0.1-beta"),
      JsonNumber(0), JsonNumber(2), JsonBoolean(TRUE), JsonBoolean(FALSE),
      JsonNull, JsonObject(Empty) }

\* what the file system holds at ../../package.json
PackageJsons ==
    { [readable |-> FALSE],
      [readable |-> TRUE, parses |-> FALSE] }
    \cup {[readable |-> TRUE, parses |-> TRUE, data |-> d] :
             d \in {JsonNull, JsonString("koa"), JsonNumber(1), JsonBoolean(TRUE)}}
    \cup {[readable |-> TRUE, parses |-> TRUE, data |-> JsonObject(n @@ v)] :
             n \in OptionalField("name", {JsonString("koa-cli")}),
             v \in OptionalField("version", VersionValues)}

InitVersion ==
    /\ pc = "version"
    /\ packageJson \in PackageJsons
    /\ versionInfo = Idle
    /\ stderr = <<>>
    /\ targetDir = Idle /\ thrown = Idle /\ stdout = Idle /\ exitCode = Idle
    /\ summary = Idle
    /\ NameIdle
    /\ MergeIdle
    /\ ValidateIdle
    /\ SuggestIdle

GetVersionInfo ==
    /\ pc = "version"
    /\ \E now \in 1..MaxClock :
          versionInfo' = getVersionInfo(packageJson, now)
    /\ stderr' = IF versionInfo'.warned
                 THEN Append(stderr, "Could not read package.json, using default version")
                 ELSE stderr
    /\ pc' = "versioned"
    /\ UNCHANGED <<packageJson, targetDir, thrown, stdout, exitCode, summary,
                   nameVars, mergeVars, validateVars, suggestVars>>

NextVersion == GetVersionInfo

SpecVersion == InitVersion /\ [][NextVersion]_vars

(***************************************************************************)
(* Specification of the create command: the action of `koa create <name>`  *)
(* from the call of createProject to its return or to process.exit         *)
(***************************************************************************)
\* project names typed on the command line
CreateProjectNames ==
    { <<"m", "y", "-", "a", "p", "p">>,
      <<"M", "y", "-", "A", "p", "p">>,
      <<" ", "m", "y", "-", "a", "p", "p">>,
      <<"M", "y", " ", "A", "p", "p", "!">>,
      <<"c", "o", "n">>,
      <<" ">> }

\* flags typed on the command line
CreateFlags ==
    {t @@ c @@ f @@ pm :
        t \in OptionalField("template", {"api", "bad"}),
        c \in OptionalField("config", {JsonPath, <<"k", "o", "a", ".", "t", "o", "m", "l">>}),
        f \in OptionalField("force", {TRUE}),
        pm \in OptionalField("packageManager", {"bun"})}

\* what the file system may hold at the config path
CreateConfigFiles ==
    { MissingFile,
      UnparsableFile,
      FileWith(Empty),
      FileWith([template |-> "fullstack", packageManager |-> "yarn", typescript |-> FALSE]),
      FileWith([features |-> [redis |-> TRUE], cache |-> [port |-> 70000]]),
      FileWith([database |-> [type |-> "postgresql", port |-> 99999]]),
      FileWith([database |-> [type |-> "mongodb", port |-> 0], cache |-> Empty]),
      FileWith([database |-> [type |-> "mysql", port |-> -1]]),
      FileWith([database |-> [type |-> "sqlite", host |-> "db.internal", port |-> 5432]]),
      FileWith([database |-> [type |-> "mysql", port |-> NonNumericPort]]),
      FileWith([authentication |-> [type |-> "oauth"]]) }

InitCreate ==
    /\ pc = "createProject"
    /\ projectName \in CreateProjectNames
    /\ \E flags \in CreateFlags :
          /\ commandLineOptions = parseOptions(flags)
          /\ configFile \in (IF Has(flags, "config") THEN CreateConfigFiles ELSE {MissingFile})
    /\ targetDir \in {"absent", "existing"}
    /\ validationResult = Idle
    /\ suggestion = Idle
    /\ interactiveAnswers = Idle
    /\ projectConfig = Idle
    /\ configValidation = Idle
    /\ thrown = Undefined
    /\ stdout = <<>>
    /\ stderr = <<>>
    /\ exitCode = <<>>
    /\ summary = Idle
    /\ name = Idle
    /\ config = Idle
    /\ VersionIdle

\* a name validation whose failure is reported but does not end createProject
StepValidateProjectName_ContinuesOnFailure ==
    /\ pc = "createProject"
    /\ validationResult' = validateProjectName(projectName)
    /\ stdout' = stdout \o <<"creating project">>
    /\ stderr' = stderr \o [i \in 1..Len(validationResult'.errors) |->
                              Line(validationResult'.errors[i])]
    /\ pc' = "checkDirectoryConflict"
    /\ UNCHANGED <<name, mergeVars, validateVars, targetDir, exitCode, summary, versionVars,
                   suggestion, thrown>>

\* create.ts 24-53: the name is validated; an invalid name is reported with the
\* naming rules and a suggestion, and createProject throws
StepValidateProjectName ==
    /\ pc = "createProject"
    /\ validationResult' = validateProjectName(projectName)
    /\ IF validationResult'.valid
       THEN /\ stdout' = stdout \o <<"creating project", "project name accepted">>
            /\ stderr' = stderr \o (IF validationResult'.warnings = <<>> THEN <<>>
                                     ELSE <<Line("warnings")>>
                                          \o [i \in 1..Len(validationResult'.warnings) |->
                                                 Line(validationResult'.warnings[i])])
            /\ pc' = "checkDirectoryConflict"
            /\ UNCHANGED <<suggestion, thrown>>
       ELSE /\ stdout' = stdout \o <<"creating project", "naming rules", "suggestion">>
            /\ stderr' = stderr \o <<Line("project name validation failed")>>
                                 \o [i \in 1..Len(validationResult'.errors) |->
                                        Line(validationResult'.errors[i])]
            /\ suggestion' = suggestValidName(projectName)
            /\ thrown' = Error("Invalid project name: ", projectName)
            /\ pc' = "caught"
    /\ UNCHANGED <<name, mergeVars, validateVars, targetDir, exitCode, summary, versionVars>>

\* create.ts 55-57: the target directory is checked, and removed under --force
StepCheckDirectoryConflict ==
    /\ pc = "checkDirectoryConflict"
    /\ LET outcome == checkDirectoryConflict(targetDir, Force(commandLineOptions))
       IN  /\ targetDir' = outcome.dir
           /\ IF outcome.threw
              THEN /\ thrown' = Error("directory exists: ", projectName)
                   /\ pc' = "caught"
                   /\ UNCHANGED stdout
              ELSE /\ stdout' = (IF targetDir = "existing"
                                 THEN Append(stdout, "directory will be overwritten")
                                 ELSE stdout)
                   /\ pc' = "runPrompts"
                   /\ UNCHANGED thrown
    /\ UNCHANGED <<nameVars, mergeVars, validateVars, suggestVars, stderr, exitCode,
                   summary, versionVars>>

\* create.ts 59-76: the prompts are run unless a config path was given
StepRunPrompts ==
    /\ pc = "runPrompts"
    /\ IF ~HasConfig(commandLineOptions) \/ needsInteractiveInput(commandLineOptions)
       THEN /\ \E u \in UserInputs : interactiveAnswers' = runPrompts(u)
            /\ stdout' = Append(stdout, "prompts")
       ELSE /\ interactiveAnswers' = Undefined
            /\ UNCHANGED stdout
    /\ pc' = "mergeConfigurations"
    /\ UNCHANGED <<projectName, commandLineOptions, configFile, projectConfig,
                   nameVars, validateVars, suggestVars,
                   targetDir, thrown, stderr, exitCode, summary, versionVars>>

\* create.ts 78-83: the three sources are merged; a config file that cannot be
\* loaded makes mergeConfigurations, and with it createProject, throw
StepMergeConfigurations ==
    /\ pc = "mergeConfigurations"
    /\ projectConfig' = mergeConfigurations(projectName, commandLineOptions,
                                            interactiveAnswers, configFile)
    /\ IF projectConfig'.threw
       THEN /\ thrown' = [name |-> "Error", message |-> projectConfig'.message]
            /\ pc' = "caught"
       ELSE /\ pc' = "validateConfiguration"
            /\ UNCHANGED thrown
    /\ UNCHANGED <<projectName, commandLineOptions, interactiveAnswers, configFile,
                   nameVars, validateVars, suggestVars,
                   targetDir, stdout, stderr, exitCode, summary, versionVars>>

\* create.ts 85-93: the merged configuration is validated; createProject throws
\* when it is not valid
StepValidateConfiguration ==
    /\ pc = "validateConfiguration"
    /\ configValidation' = validateConfiguration(projectConfig.value)
    /\ IF configValidation'.valid
       THEN /\ pc' = "displayConfigSummary"
            /\ UNCHANGED <<thrown, stderr>>
       ELSE /\ stderr' = stderr \o <<Line("configuration validation failed")>>
                                 \o [i \in 1..Len(configValidation'.errors) |->
                                        Line(configValidation'.errors[i].rule)]
            /\ thrown' = Error("Configuration validation failed", <<>>)
            /\ pc' = "caught"
    /\ UNCHANGED <<config, nameVars, mergeVars, suggestVars,
                   targetDir, stdout, exitCode, summary, versionVars>>

\* create.ts 95-100: the summary of the answers, or of the configuration when
\* no prompt was run
StepDisplayConfigSummary ==
    /\ pc = "displayConfigSummary"
    /\ stdout' = Append(stdout, IF IsUndefined(interactiveAnswers)
                                THEN "summary of the configuration"
                                ELSE "summary of the answers")
    /\ summary' = (IF IsUndefined(interactiveAnswers)
                   THEN displayConfigSummary(projectConfig.value)
                   ELSE InteractivePrompter_displayConfigSummary(interactiveAnswers))
    /\ pc' = "ready"
    /\ UNCHANGED <<nameVars, mergeVars, validateVars, suggestVars,
                   targetDir, thrown, stderr, exitCode, versionVars>>

\* create.ts 102-111: 'configuration validated, ready to generate'; nothing is
\* generated and createProject returns
StepReadyToGenerate ==
    /\ pc = "ready"
    /\ stdout' = stdout \o <<"ready to generate", "generation not implemented">>
    /\ pc' = "done"
    /\ UNCHANGED <<nameVars, mergeVars, validateVars, suggestVars,
                   targetDir, thrown, stderr, exitCode, summary, versionVars>>

\* cli.ts 106-113: what createProject threw is formatted, logged and the
\* process exits with code 1
CatchAndExit ==
    /\ pc = "caught"
    /\ LET formattedError ==
               handleError(thrown, [command |-> "create", projectName |-> projectName])
       IN  stderr' = Append(stderr, logError(formattedError))
    /\ exitCode' = Append(exitCode, 1)
    /\ pc' = "exited"
    /\ UNCHANGED <<nameVars, mergeVars, validateVars, suggestVars,
                   targetDir, thrown, stdout, summary, versionVars>>

NextCreate ==
    \/ StepValidateProjectName
    \/ StepCheckDirectoryConflict
    \/ StepRunPrompts
    \/ StepMergeConfigurations
    \/ StepValidateConfiguration
    \/ StepDisplayConfigSummary
    \/ StepReadyToGenerate
    \/ CatchAndExit

SpecCreate == InitCreate /\ [][NextCreate]_vars

\* the catch block of the action runs as soon as createProject has rejected:
\* a caught error is always handled
SpecCreateLive == SpecCreate /\ WF_vars(CatchAndExit)

(***************************************************************************)
(* Configurations validateConfiguration is called with                     *)
(***************************************************************************)
ConfigNames == {<<>>, <<" ">>, <<" ", "\t">>, <<"a", "p", "p">>, <<" ", "a">>}

Ports == {-1, 0, 1, 3306, 65535, 65536, 99999}

Configurations ==
    {[name |-> n, template |-> t, packageManager |-> pm, typescript |-> TRUE,
      features |-> FinalFeatureDefaults] @@ d @@ c @@ a :
        n \in ConfigNames,
        t \in {"basic", "api", "fullstack", "bad"},
        pm \in {"npm", "yarn", "pnpm", "bun"},
        d \in OptionalField("database",
                 {[type |-> ty, host |-> "localhost", port |-> po, database |-> "myapp"] :
                     ty \in {"mysql", "postgresql", "mongodb", "sqlite"}, po \in Ports}),
        c \in OptionalField("cache",
                 {[type |-> ty, host |-> "localhost", port |-> po, database |-> 0] :
                     ty \in {"redis", "memcached"}, po \in Ports}),
        a \in OptionalField("authentication",
                 {[type |-> ty] : ty \in {"jwt", "session", "oauth"}})}

(***************************************************************************)
(* Specification of validateConfiguration                                  *)
(***************************************************************************)
InitValidate ==
    /\ pc = "validate"
    /\ config \in Configurations
    /\ configValidation = Idle
    /\ NameIdle
    /\ MergeIdle
    /\ SuggestIdle
    /\ CreateIdle
    /\ VersionIdle

ValidateConfiguration ==
    /\ pc = "validate"
    /\ configValidation' = validateConfiguration(config)
    /\ pc' = "checked"
    /\ UNCHANGED <<config, nameVars, mergeVars, suggestVars, createVars, versionVars>>

NextValidate == ValidateConfiguration

SpecValidate == InitValidate /\ [][NextValidate]_vars

(***************************************************************************)
(* Claims about mergeConfigurations, checked under SpecMerge               *)
(***************************************************************************)
\* The three sources as the caller supplied them, before any conversion.
CommandLineSource == commandLineOptions

ConfigFileSource ==
    IF Has(commandLineOptions, "config") /\ commandLineOptions.config # <<>>
       /\ configFile.exists /\ configFile.parses /\ ~IsUndefined(configFile.data)
    THEN configFile.data
    ELSE Empty

InteractiveSource ==
    IF IsUndefined(interactiveAnswers) THEN Empty ELSE interactiveAnswers

\* command line, config file, interactive: from the highest priority to the lowest
Sources == <<CommandLineSource, ConfigFileSource, InteractiveSource>>

\* A source defines a textual field when it gives it a non-empty value (the
\* code treats '' like undefined), a boolean field when it gives it any value.
DefinesText(src, f) == Has(src, f) /\ src[f] # ""

DefinesFlag(src, f) == Has(src, f)

Merged == projectConfig.value

\* C1: each scalar field (template, typescript, packageManager) of the result is
\* the value of the highest-priority source that defines it, with priority
\* command line > config file > interactive; a source that leaves the field
\* undefined never replaces the value of a lower-priority source.
C1_ScalarPriority ==
    pc = "merged" =>
        /\ \A f \in {"template", "packageManager"} :
              \A i \in 1..3 :
                  (DefinesText(Sources[i], f) /\ \A j \in 1..(i - 1) : ~DefinesText(Sources[j], f))
                      => Merged[f] = Sources[i][f]
        /\ \A i \in 1..3 :
              (DefinesFlag(Sources[i], "typescript")
                 /\ \A j \in 1..(i - 1) : ~DefinesFlag(Sources[j], "typescript"))
                  => Merged.typescript = Sources[i].typescript

\* C1 witness: commandLine={template:api}, configFile={template:basic,
\* typescript:false}, interactive={template:basic, typescript:true,
\* packageManager:npm} merged into template=api, typescript=false, packageManager=npm.
C1_Witness ==
    /\ pc = "merged"
    /\ commandLineOptions = [template |-> "api", config |-> JsonPath]
    /\ configFile = FileWith([template |-> "basic", typescript |-> FALSE])
    /\ interactiveAnswers = [template |-> "basic", typescript |-> TRUE, packageManager |-> "npm"]
    /\ Merged.template = "api"
    /\ Merged.typescript = FALSE
    /\ Merged.packageManager = "npm"

\* A source defines a sub-key of a nested object when its section holds the
\* sub-key (a port of 0 counts as not given: the code's || treats it so).
DefinesSubKey(src, o, k) ==
    Has(src, o) /\ Has(src[o], k) /\ ~(k = "port" /\ src[o][k] = 0)

\* C2: for each nested object (features, database, cache, authentication) and
\* each of its sub-keys, the value in the result comes from the
\* highest-priority source that itself defines that sub-key; a sub-key the
\* config file does not mention keeps the value of the interactive answers.
C2_NestedPerSubKey ==
    pc = "merged" =>
        \A o \in NestedKeys :
            \A i \in 1..3 :
                Has(Sources[i], o) =>
                    \A k \in DOMAIN Sources[i][o] :
                        (DefinesSubKey(Sources[i], o, k)
                           /\ \A j \in 1..(i - 1) : ~DefinesSubKey(Sources[j], o, k))
                            => /\ Has(Merged, o)
                               /\ Has(Merged[o], k)
                               /\ Merged[o][k] = Sources[i][o][k]

\* C2 failing input: the config file holds features={redis:true}, the answers
\* hold features.logging=false, and the result holds logging=true.
C2_Witness ==
    /\ pc = "merged"
    /\ Has(ConfigFileSource, "features") /\ ConfigFileSource.features = [redis |-> TRUE]
    /\ Has(InteractiveSource, "features") /\ ~InteractiveSource.features.logging
    /\ ~Has(CommandLineSource, "features")
    /\ Merged.features.logging
    /\ Merged.features.redis

\* the default port of each database type, as the data model states it
DefaultPortOfType(type) ==
    CASE type = "mysql" -> 3306
      [] type = "postgresql" -> 5432
      [] type = "mongodb" -> 27017

\* C3: a database configuration given without a port gets the default port of
\* its type (mysql 3306, postgresql 5432, mongodb 27017), both at the prompt
\* (the offered default, accepted) and for a config-file database section that
\* names a type but no port.
C3_DefaultPortByType ==
    pc = "merged" =>
        /\ Has(InteractiveSource, "database") =>
              \A u \in UserInputs :
                  (interactiveAnswers = runPrompts(u) /\ ~Has(u, "databasePort"))
                      => interactiveAnswers.database.port = DefaultPortOfType(u.databaseType)
        /\ (Has(ConfigFileSource, "database")
              /\ Has(ConfigFileSource.database, "type")
              /\ ~Has(ConfigFileSource.database, "port")
              /\ ~Has(InteractiveSource, "database"))
              => Merged.database.port = DefaultPortOfType(ConfigFileSource.database.type)

\* C3 failing input: the config file holds database={type:postgresql}, nobody
\* gives a port, and the result holds the port 3306.
C3_Witness ==
    /\ pc = "merged"
    /\ Has(ConfigFileSource, "database")
    /\ ConfigFileSource.database = [type |-> "postgresql"]
    /\ ~Has(InteractiveSource, "database")
    /\ Merged.database.type = "postgresql"
    /\ Merged.database.port = 3306

\* the values the sources define for a textual field, a flag, a feature
TextValues(f) == {Sources[i][f] : i \in {j \in 1..3 : DefinesText(Sources[j], f)}}

FlagValues(f) == {Sources[i][f] : i \in {j \in 1..3 : DefinesFlag(Sources[j], f)}}

FeatureValues(k) ==
    {Sources[i].features[k] :
        i \in {j \in 1..3 : Has(Sources[j], "features") /\ Has(Sources[j].features, k)}}

FixedFeatureDefault(k) == k \in {"logging", "cors", "helmet"}

\* C4: a field no source defined gets its fixed default (template=basic,
\* packageManager=pnpm, typescript=true, logging/cors/helmet=true,
\* rateLimit/swagger/redis=false); a value defined by a source is kept, never
\* replaced by the default; the returned name is the projectName argument.
C4_DefaultsOnlyForUndefined ==
    pc = "merged" =>
        /\ Merged.name = projectName
        /\ Merged.template \in (IF TextValues("template") = {} THEN {"basic"}
                                ELSE TextValues("template"))
        /\ Merged.packageManager \in (IF TextValues("packageManager") = {} THEN {"pnpm"}
                                      ELSE TextValues("packageManager"))
        /\ Merged.typescript \in (IF FlagValues("typescript") = {} THEN {TRUE}
                                  ELSE FlagValues("typescript"))
        /\ \A k \in FeatureKeys :
              Merged.features[k] \in (IF FeatureValues(k) = {} THEN {FixedFeatureDefault(k)}
                                      ELSE FeatureValues(k))

\* C4 failing input: the config file holds an empty features section, the only
\* value any source gives for logging is false, and the result holds logging=true.
C4_Witness ==
    /\ pc = "merged"
    /\ Has(ConfigFileSource, "features") /\ ConfigFileSource.features = Empty
    /\ FeatureValues("logging") = {FALSE}
    /\ Merged.features.logging

\* C5: the result holds a database (cache, authentication) section if and only
\* if at least one of the three sources supplied that section.
C5_OptionalSections ==
    pc = "merged" =>
        \A o \in {"database", "cache", "authentication"} :
            Has(Merged, o) <=> \E i \in 1..3 : Has(Sources[i], o)

\* C5 witness: only the answers supply authentication, only the config file
\* supplies a cache (an empty section), nobody supplies a database.
C5_Witness ==
    /\ pc = "merged"
    /\ Has(InteractiveSource, "authentication") /\ ~Has(ConfigFileSource, "authentication")
    /\ Has(ConfigFileSource, "cache") /\ ConfigFileSource.cache = Empty
    /\ ~Has(InteractiveSource, "cache")
    /\ ~Has(Merged, "database") /\ Has(Merged, "cache") /\ Has(Merged, "authentication")

\* the config path of the command line, '' when there is none
SuppliedConfigPath ==
    IF Has(commandLineOptions, "config") THEN commandLineOptions.config ELSE <<>>

HasSupportedExtension(path) ==
    toLowerCase(extname(path)) \in {<<".", "j", "s", "o", "n">>,
                                    <<".", "y", "a", "m", "l">>,
                                    <<".", "y", "m", "l">>}

\* mergeConfigurations threw an Error whose message holds the text `cause`
FailedWithCause(cause) ==
    /\ pc = "failed"
    /\ projectConfig.threw
    /\ projectConfig.message = <<"config file parse failed: ", cause>>

\* C16: with a config path supplied, mergeConfigurations fails with a
\* config-parse error and returns no configuration when the file does not
\* exist, when its extension is not .json, .yaml or .yml (compared without
\* regard to case), or when its content fails to parse, and the message holds
\* the text of the underlying failure; a readable file with a supported
\* extension and an object as content does not fail; without a config path no
\* file is read and the config-file source is empty.
C16_ConfigFileErrors ==
    pc \in {"merged", "failed"} =>
        LET path == SuppliedConfigPath
        IN  /\ (path # <<>> /\ ~configFile.exists)
                  => FailedWithCause("config file does not exist")
            /\ (path # <<>> /\ configFile.exists /\ ~HasSupportedExtension(path))
                  => FailedWithCause("unsupported config file format")
            /\ (path # <<>> /\ configFile.exists /\ HasSupportedExtension(path)
                   /\ ~configFile.parses)
                  => FailedWithCause("parser exception")
            /\ pc = "failed" => DOMAIN projectConfig = {"threw", "message"}
            /\ (path # <<>> /\ configFile.exists /\ HasSupportedExtension(path)
                   /\ configFile.parses /\ ~IsUndefined(configFile.data))
                  => pc = "merged"
            /\ path = <<>> =>
                  /\ pc = "merged"
                  /\ projectConfig = mergeConfigurations(projectName, commandLineOptions,
                                                         interactiveAnswers, MissingFile)

\* C16 witness: an existing, well-formed file named koa.toml made the merge
\* fail for its extension.
C16_Witness ==
    /\ pc = "failed"
    /\ commandLineOptions.config = <<"k", "o", "a", ".", "t", "o", "m", "l">>
    /\ configFile.exists /\ configFile.parses
    /\ projectConfig.message = <<"config file parse failed: ", "unsupported config file format">>

(***************************************************************************)
(* Claims about the name validator, checked under SpecName                 *)
(***************************************************************************)
Elems(s) == {s[i] : i \in 1..Len(s)}

\* The naming rules 2 to 9 as the specification words them, each on a string s.
RuleNameTooLong(s) == Len(s) > 214

RuleNameTooShort(s) == Len(s) < 1

RuleInvalidCharacters(s) == \E c \in Elems(s) : c \notin Lower \cup Upper \cup Digit \cup {".", "_", "-"}

RuleInvalidStart(s) == s # <<>> /\ Head(s) \in {".", "_"}

RuleInvalidEnd(s) == s # <<>> /\ s[Len(s)] \in {".", "-"}

RuleReservedName(s) == \E r \in reservedNames : toLowerCase(s) = r

RuleInvalidScopeFormat(s) ==
    /\ s # <<>> /\ Head(s) = "@"
    /\ ~ \E scope, pkg \in {SubSeq(s, i, j) : i \in 2..Len(s), j \in 2..Len(s)} :
            /\ scope # <<>> /\ pkg # <<>>
            /\ Elems(scope) \cup Elems(pkg) \subseteq Lower \cup Upper \cup Digit \cup {".", "_", "-"}
            /\ s = <<"@">> \o scope \o <<"/">> \o pkg

RuleConsecutiveSeparators(s) ==
    \E i \in 1..(Len(s) - 1) : {s[i], s[i + 1]} \subseteq {".", "-"}

\* One code per violated rule, in rule order.
ViolatedRuleCodes(s) ==
       (IF RuleNameTooLong(s) THEN <<"NAME_TOO_LONG">> ELSE <<>>)
    \o (IF RuleNameTooShort(s) THEN <<"NAME_TOO_SHORT">> ELSE <<>>)
    \o (IF RuleInvalidCharacters(s) THEN <<"INVALID_CHARACTERS">> ELSE <<>>)
    \o (IF RuleInvalidStart(s) THEN <<"INVALID_START">> ELSE <<>>)
    \o (IF RuleInvalidEnd(s) THEN <<"INVALID_END">> ELSE <<>>)
    \o (IF RuleReservedName(s) THEN <<"RESERVED_NAME">> ELSE <<>>)
    \o (IF RuleInvalidScopeFormat(s) THEN <<"INVALID_SCOPE_FORMAT">> ELSE <<>>)
    \o (IF RuleConsecutiveSeparators(s) THEN <<"CONSECUTIVE_SEPARATORS">> ELSE <<>>)

IsBlank(s) == Elems(s) \subseteq Whitespace

WellFormedLowercaseName(s) ==
    /\ Len(s) \in 1..214
    /\ Elems(s) \subseteq Lower \cup Digit \cup {".", "_", "-"}
    /\ s \notin reservedNames
    /\ Head(s) \notin {".", "_"}
    /\ s[Len(s)] \notin {".", "-"}
    /\ ~ \E i \in 1..(Len(s) - 1) : {s[i], s[i + 1]} \subseteq {".", "-"}

\* C9: every name matching ^[a-z0-9._-]+$ with 1 to 214 characters that is not
\* reserved, does not start with '.' or '_', does not end with '.' or '-' and
\* has no two consecutive '.'/'-' is accepted with valid=true, no error and no
\* warning.
C9_WellFormedNamesAccepted ==
    (pc = "validated" /\ WellFormedLowercaseName(name)) =>
        validationResult = [valid |-> TRUE, errors |-> <<>>, warnings |-> <<>>]

\* C9 witness: a well-formed name of the maximal length has been validated.
C9_Witness ==
    /\ pc = "validated"
    /\ WellFormedLowercaseName(name)
    /\ Len(name) = 214

WellFormedScopedName(s) ==
    /\ Len(s) \in 4..214
    /\ Head(s) = "@"
    /\ \E i \in 3..(Len(s) - 1) :
          /\ s[i] = "/"
          /\ \A j \in (2..Len(s)) \ {i} :
                s[j] \in Lower \cup Upper \cup Digit \cup {".", "_", "-"}
    /\ s[Len(s)] \notin {".", "-"}
    /\ ~RuleConsecutiveSeparators(s)
    /\ ~RuleReservedName(s)

\* C11: a well-formed scoped name @scope/name is accepted with valid=true, and
\* a name starting with '@' gets INVALID_SCOPE_FORMAT exactly when it does not
\* match the pattern @scope/name.
C11_ScopedNamesAccepted ==
    pc = "validated" =>
        /\ WellFormedScopedName(name) => validationResult.valid
        /\ ~IsBlank(name) =>
              ("INVALID_SCOPE_FORMAT" \in Elems(validationResult.errors)
                  <=> RuleInvalidScopeFormat(trim(name)))

\* C11 failing input: @myorg/my-package is rejected for its characters.
C11_Witness ==
    /\ pc = "validated"
    /\ name = <<"@", "m", "y", "o", "r", "g", "/", "m", "y", "-", "p", "a", "c", "k", "a", "g", "e">>
    /\ WellFormedScopedName(name)
    /\ ~validationResult.valid
    /\ validationResult.errors = <<"INVALID_CHARACTERS">>

(***************************************************************************)
(* Claims about suggestValidName, checked under SpecSuggest                *)
(***************************************************************************)
\* C12: the suggestion is always a valid project name: validating it returns
\* valid=true; in particular it is not reserved, does not end with '.' or '-'
\* and has at most 214 characters.
C12_SuggestionIsValid ==
    pc = "revalidated" =>
        /\ validationResult.valid
        /\ suggestion \notin reservedNames
        /\ suggestion[Len(suggestion)] \notin {".", "-"}
        /\ Len(suggestion) <= 214

\* C12 failing input: the name CON is turned into the suggestion con, which
\* the validator rejects as reserved.
C12_Witness ==
    /\ pc = "revalidated"
    /\ name = <<"C", "O", "N">>
    /\ suggestion = <<"c", "o", "n">>
    /\ ~validationResult.valid
    /\ validationResult.errors = <<"RESERVED_NAME">>

\* the text of a name that survives the cleaning steps of suggestValidName
HasLeadingDigit(s) == s # <<>> /\ Head(s) \in Digit

\* C13: the suggestion is non-empty, consists only of lowercase letters, digits
\* and '-', has no two adjacent '-' and does not start with a digit; it is
\* my-koa-app when nothing survives the cleaning, it is the cleaned text
\* prefixed with app- when that text starts with a digit, and My--App! gives
\* my-app.
C13_SuggestionShape ==
    pc \in {"suggested", "revalidated"} =>
        /\ suggestion # <<>>
        /\ Elems(suggestion) \subseteq Lower \cup Digit \cup {"-"}
        /\ \A i \in 1..(Len(suggestion) - 1) : ~(suggestion[i] = "-" /\ suggestion[i + 1] = "-")
        /\ ~HasLeadingDigit(suggestion)
        /\ cleanedSuggestion(name) = <<>> => suggestion = <<"m", "y", "-", "k", "o", "a", "-", "a", "p", "p">>
        /\ HasLeadingDigit(cleanedSuggestion(name)) =>
              suggestion = <<"a", "p", "p", "-">> \o cleanedSuggestion(name)
        /\ name = <<"M", "y", "-", "-", "A", "p", "p", "!">> =>
              suggestion = <<"m", "y", "-", "a", "p", "p">>

\* C13 witness: My--App! has been turned into my-app.
C13_Witness ==
    /\ pc = "suggested"
    /\ name = <<"M", "y", "-", "-", "A", "p", "p", "!">>
    /\ suggestion = <<"m", "y", "-", "a", "p", "p">>

(***************************************************************************)
(* Claims about getVersionInfo, checked under SpecVersion                  *)
(***************************************************************************)
\* package.json is readable, parses to an object and has a version
PackageHasVersion ==
    /\ packageJson.readable /\ packageJson.parses
    /\ packageJson.data.type = "object"
    /\ Has(packageJson.data.fields, "version")
    /\ Truthy(packageJson.data.fields.version)

\* C20: getVersionInfo returns a non-empty string as cliVersion: the version
\* of package.json when that file is readable and has one, the default 1.0.0
\* when it is missing, unreadable, unparsable or has no version; and
\* templatesVersion is 1.0.0.
C20_VersionOrDefault ==
    pc = "versioned" =>
        /\ versionInfo.cliVersion.type = "string"
        /\ versionInfo.cliVersion.value # ""
        /\ PackageHasVersion => versionInfo.cliVersion = packageJson.data.fields.version
        /\ ~PackageHasVersion => versionInfo.cliVersion = [type |-> "string", value |-> "1.0.0"]
        /\ versionInfo.templatesVersion = "1.0.0"

\* C20 failing input: package.json holds {"version": 2} and cliVersion is the
\* number 2.
C20_Witness ==
    /\ pc = "versioned"
    /\ packageJson.readable /\ packageJson.parses
    /\ packageJson.data = [type |-> "object", fields |-> [version |-> [type |-> "number", value |-> 2]]]
    /\ versionInfo.cliVersion = [type |-> "number", value |-> 2]

(***************************************************************************)
(* Claims about the create command, checked under SpecCreate               *)
(***************************************************************************)
Threw == ~IsUndefined(thrown)

\* the four causes of a failure of createProject
NameValidationFailed == Has(validationResult, "valid") /\ ~validationResult.valid

DirectoryConflicted ==
    /\ pc \notin {"createProject", "checkDirectoryConflict"}
    /\ Has(validationResult, "valid") /\ validationResult.valid
    /\ targetDir = "existing"
    /\ ~Force(commandLineOptions)

ConfigParseFailed == Has(projectConfig, "threw") /\ projectConfig.threw

ConfigValidationFailed == Has(configValidation, "valid") /\ ~configValidation.valid

ExitsWithOneAfterLogging ==
    /\ (NameValidationFailed \/ DirectoryConflicted \/ ConfigParseFailed
          \/ ConfigValidationFailed) => Threw /\ pc \in {"caught", "exited"}
    /\ Threw => pc \in {"caught", "exited"}
    /\ pc = "caught" => Threw /\ exitCode = <<>>
    /\ pc = "exited" => /\ Threw
                        /\ exitCode = <<1>>
                        /\ stderr # <<>>
                        /\ stderr[Len(stderr)].code # ""
                        /\ stderr[Len(stderr)].message = thrown.message
    /\ ~Threw => exitCode = <<>>

\* C14: whenever createProject throws, for each of the four causes (invalid
\* name, config file that cannot be loaded, invalid merged configuration,
\* existing target directory without --force), the command ends with exit code
\* 1 after the formatted error was written to standard error; when
\* createProject completes without throwing, exit is not called.
C14_ExitCodeOneOnThrow ==
    /\ []ExitsWithOneAfterLogging
    /\ (Threw ~> (pc = "exited" /\ exitCode = <<1>>))
    /\ [](pc = "done" => [](exitCode = <<>>))

\* C14 witness: the merged configuration was not valid, createProject threw,
\* the error was logged and the process exited with code 1.
C14_Witness ==
    /\ pc = "exited"
    /\ ConfigValidationFailed
    /\ exitCode = <<1>>
    /\ stderr[Len(stderr)].message = <<"Configuration validation failed", <<>>>>

ReportedCode == stderr[Len(stderr)].code

\* C15: the code the error handler reports names the class of the failure:
\* NAME_VALIDATION_ERROR for an invalid name, CONFIG_PARSE_ERROR for a config
\* file that cannot be loaded, CONFIG_VALIDATION_ERROR for an invalid merged
\* configuration, DIRECTORY_CONFLICT_ERROR for an existing target directory
\* without --force; UNKNOWN_ERROR is reported for none of these four.
C15_ErrorCodeByClass ==
    pc = "exited" =>
        /\ NameValidationFailed => ReportedCode = "NAME_VALIDATION_ERROR"
        /\ ConfigParseFailed => ReportedCode = "CONFIG_PARSE_ERROR"
        /\ ConfigValidationFailed => ReportedCode = "CONFIG_VALIDATION_ERROR"
        /\ DirectoryConflicted => ReportedCode = "DIRECTORY_CONFLICT_ERROR"
        /\ ReportedCode = "UNKNOWN_ERROR" =>
               ~(NameValidationFailed \/ ConfigParseFailed
                  \/ ConfigValidationFailed \/ DirectoryConflicted)

\* C15 failing input: `koa create "My App!"`: the name is invalid and the
\* error is reported with the code UNKNOWN_ERROR.
C15_Witness ==
    /\ pc = "exited"
    /\ projectName = <<"M", "y", " ", "A", "p", "p", "!">>
    /\ NameValidationFailed
    /\ ReportedCode = "UNKNOWN_ERROR"

\* nothing of the steps that follow the directory check has run
NothingAttempted ==
    /\ interactiveAnswers = Idle
    /\ projectConfig = Idle
    /\ configValidation = Idle
    /\ \A i \in 1..Len(stdout) :
          stdout[i] \notin {"prompts", "summary of the configuration",
                            "summary of the answers", "ready to generate",
                            "generation not implemented"}

\* C17: if the target directory exists and --force is not set, createProject
\* fails before the prompts, the loading of the config file, the merge or any
\* generation step is attempted, and the existing directory is left unchanged.
C17_ConflictFailsBeforeAnyStep ==
    /\ [](DirectoryConflicted => Threw /\ pc \in {"caught", "exited"} /\ NothingAttempted)
    /\ [][targetDir = "existing" /\ ~Force(commandLineOptions)
            => targetDir' = "existing"]_vars
    /\ [](pc = "checkDirectoryConflict" /\ targetDir = "existing"
             /\ ~Force(commandLineOptions)
          => [](pc \in {"checkDirectoryConflict", "caught", "exited"}))

\* C17 witness: my-app exists, --force was not given: the command exited with
\* the directory error, the directory still exists and no answer, merged
\* configuration or validation result was produced.
C17_Witness ==
    /\ pc = "exited"
    /\ DirectoryConflicted
    /\ thrown.message[1] = "directory exists: "
    /\ targetDir = "existing"
    /\ NothingAttempted

\* C18: if the target directory exists and --force is set, the directory is
\* removed and recreated: when such a run completes without error the target
\* directory exists again (it is not left removed).
C18_ForceRecreatesDirectory ==
    pc = "done" /\ Force(commandLineOptions) => targetDir # "removed"

\* C18 failing input: `koa create my-app --force` with my-app existing: the
\* run completes and the directory is gone.
C18_Witness ==
    /\ pc = "done"
    /\ Force(commandLineOptions)
    /\ ~Threw
    /\ targetDir = "removed"

\* the invariant of the data model
DataModelInvariant(c) ==
    /\ c.template \in {"basic", "api", "fullstack"}
    /\ c.packageManager \in {"npm", "yarn", "pnpm"}
    /\ Has(c, "database") => c.database.port \in MinPort..MaxPort
    /\ Has(c, "cache") => c.cache.port \in MinPort..MaxPort

\* C19: every configuration with which createProject reaches the step
\* 'configuration validated, ready to generate' has a template among
\* basic/api/fullstack, a packageManager among npm/yarn/pnpm and, when it has
\* a database or a cache, a port of it within 1..65535, whatever the options,
\* the config file and the answers were.
C19_ReadyConfigurationIsValid ==
    pc \in {"displayConfigSummary", "ready", "done"} =>
        DataModelInvariant(projectConfig.value)

\* C19 failing input: `koa create my-app --config koa.json` with a koa.json
\* that holds {"database": {"type": "mysql", "port": "abc"}}: the run gets to
\* 'ready to generate' with a database port that is not a number.
C19_Witness ==
    /\ pc = "done"
    /\ HasConfig(commandLineOptions)
    /\ configValidation.valid
    /\ Has(projectConfig.value, "database")
    /\ projectConfig.value.database.port = NonNumericPort

\* the flags of the command line that gave commandLineOptions had no --template
NoTemplateFlag ==
    \E flags \in CreateFlags :
        ~Has(flags, "template") /\ parseOptions(flags) = commandLineOptions

\* C21: when --template is not passed, the command line contributes no
\* template, so that the template of the final configuration is the one chosen
\* in the prompts or given by the config file.
C21_NoTemplateFlagNoTemplate ==
    (pc \in {"validateConfiguration", "displayConfigSummary", "ready", "done"}
       /\ NoTemplateFlag) =>
        /\ ~Has(convertCommandLineOptions(commandLineOptions), "template")
        /\ ~IsUndefined(interactiveAnswers) =>
               projectConfig.value.template = interactiveAnswers.template
        /\ (HasConfig(commandLineOptions) /\ Has(configFile.data, "template")) =>
               projectConfig.value.template = configFile.data.template

\* C21 failing input: `koa create my-app` and the choice of api in the template
\* prompt: the final configuration has the template basic.
C21_Witness ==
    /\ pc = "done"
    /\ NoTemplateFlag
    /\ ~HasConfig(commandLineOptions)
    /\ interactiveAnswers.template = "api"
    /\ projectConfig.value.template = "basic"

\* the steps of createProject, in the order of the source
StepOrder ==
    <<"createProject", "checkDirectoryConflict", "runPrompts", "mergeConfigurations",
      "validateConfiguration", "displayConfigSummary", "ready", "done">>

Position(step) == CHOOSE i \in 1..Len(StepOrder) : StepOrder[i] = step

InStep == \E i \in 1..Len(StepOrder) : StepOrder[i] = pc

\* what the steps up to the present one have produced, and nothing more
EarlierStepsSucceeded ==
    InStep =>
        LET n == Position(pc)
        IN  /\ ~Threw
            /\ IF n > 1 THEN Has(validationResult, "valid") /\ validationResult.valid
                       ELSE validationResult = Idle
            /\ n > 2 => targetDir # "existing"
            /\ IF n > 3 THEN interactiveAnswers # Idle ELSE interactiveAnswers = Idle
            /\ IF n > 4 THEN Has(projectConfig, "threw") /\ ~projectConfig.threw
                       ELSE projectConfig = Idle
            /\ IF n > 5 THEN Has(configValidation, "valid") /\ configValidation.valid
                       ELSE configValidation = Idle

\* after a failure, the results are those of the steps up to the failed one
FailureEndsTheRun ==
    ~InStep =>
        /\ Threw
        /\ validationResult # Idle
        /\ interactiveAnswers # Idle =>
               validationResult.valid /\ ~DirectoryConflicted
        /\ projectConfig # Idle => interactiveAnswers # Idle
        /\ configValidation # Idle => projectConfig # Idle /\ ~projectConfig.threw
        /\ (NameValidationFailed \/ DirectoryConflicted) => projectConfig = Idle
        /\ ConfigParseFailed => configValidation = Idle
        /\ configValidation # Idle => ~configValidation.valid

\* a step is followed by the next one or by the throw, never by itself again
\* nor by an earlier one
NextStepOrThrow ==
    pc' # pc =>
        \/ InStep /\ pc # "done" /\ pc' = StepOrder[Position(pc) + 1] /\ ~Threw'
        \/ InStep /\ pc # "done" /\ pc' = "caught" /\ Threw'
        \/ pc = "caught" /\ pc' = "exited"

\* once a step has failed, no step changes anything
NothingAfterFailure ==
    Threw => UNCHANGED <<validationResult, suggestion, targetDir, interactiveAnswers,
                         projectConfig, configValidation, stdout, thrown>>

\* C22: the steps run strictly in the order validate name, check directory
\* conflict, prompts, load and merge, validate configuration, report; a step
\* starts only if every earlier step succeeded, the first failure ends the run
\* with a thrown error, no step is retried, and when the name validation fails
\* no directory is removed, no prompt is shown and no config file is read.
C22_StepsInOrder ==
    /\ [](EarlierStepsSucceeded /\ FailureEndsTheRun)
    /\ [][NextStepOrThrow /\ NothingAfterFailure]_vars
    /\ [](NameValidationFailed =>
            /\ NothingAttempted
            /\ \A i \in 1..Len(stdout) : stdout[i] # "directory will be overwritten")
    /\ [][NameValidationFailed' => targetDir' = targetDir]_vars

\* C22 witness: a run in which every step succeeded, the directory having been
\* removed under --force, the prompts shown and the summary printed.
C22_Witness ==
    /\ pc = "done"
    /\ targetDir = "removed"
    /\ ~HasConfig(commandLineOptions)
    /\ stdout[Len(stdout)] = "generation not implemented"
    /\ \E i \in 1..Len(stdout) : stdout[i] = "prompts"

PromptsShown == \E i \in 1..Len(stdout) : stdout[i] = "prompts"

C24_SummaryShowsMergedConfiguration ==
    pc \in {"ready", "done"} =>
        /\ summary.template = projectConfig.value.template
        /\ summary.typescript = projectConfig.value.typescript
        /\ summary.packageManager = projectConfig.value.packageManager

\* C24 failing input: `koa create my-app --template api` and the choice of
\* another template in the prompt: the summary shows the template of the
\* answers, the final configuration has the template api.
C24_Witness ==
    /\ pc = "done"
    /\ commandLineOptions.template = "api"
    /\ projectConfig.value.template = "api"
    /\ ~IsUndefined(interactiveAnswers)
    /\ interactiveAnswers.template # "api"
    /\ summary.template = interactiveAnswers.template

\* C25: whenever validateProjectName returns valid=true, the name as passed
\* in, which createProject uses unchanged as the name of the configuration and
\* of the target directory, consists only of characters of [a-zA-Z0-9._-]
\* (no surrounding whitespace) and has 1 to 214 characters.
C25_ValidNameIsWellFormedAsPassed ==
    /\ (Has(validationResult, "valid") /\ validationResult.valid) =>
          /\ MatchesNamePattern(projectName)
          /\ Len(projectName) \in MinNameLength..MaxNameLength
    /\ (Has(projectConfig, "threw") /\ ~projectConfig.threw) =>
          projectConfig.value.name = projectName

\* C25 failing input: `koa create " my-app"`: the name is accepted and is, with
\* its leading space, the name of the final configuration.
C25_Witness ==
    /\ pc = "done"
    /\ projectName = <<" ", "m", "y", "-", "a", "p", "p">>
    /\ validationResult.valid
    /\ projectConfig.value.name = projectName

\* the ports the config file gives, with the section that holds them
FilePorts ==
    IF HasConfig(commandLineOptions) /\ configFile.exists /\ configFile.parses
    THEN {<<section, configFile.data[section].port>> :
            section \in {k \in DOMAIN configFile.data \cap {"database", "cache"} :
                           /\ Has(configFile.data[k], "port")
                           /\ configFile.data[k].port # NonNumericPort}}
    ELSE {}

PortRule(section) == IF section = "database" THEN "database.port" ELSE "cache.port"

\* C26: every config file that gives a database or cache port outside 1..65535
\* (0 and negative values included) makes the run fail at the validation of
\* the configuration with an error naming that port; such a port is never
\* replaced by another value.
C26_OutOfRangeFilePortFails ==
    \A sp \in FilePorts :
        sp[2] \notin MinPort..MaxPort =>
            /\ pc \notin {"displayConfigSummary", "ready", "done"}
            /\ (Has(projectConfig, "threw") /\ ~projectConfig.threw) =>
                   /\ Has(projectConfig.value, sp[1])
                   /\ projectConfig.value[sp[1]].port = sp[2]
            /\ configValidation # Idle =>
                   /\ ~configValidation.valid
                   /\ \E i \in 1..Len(configValidation.errors) :
                          configValidation.errors[i] =
                              [rule |-> PortRule(sp[1]), number |-> sp[2]]

\* C26 failing input: `koa create my-app --config koa.json` with a koa.json
\* that holds {"database": {"type": "mongodb", "port": 0}}: the run completes
\* with the database port 3306.
C26_Witness ==
    /\ pc = "done"
    /\ <<"database", 0>> \in FilePorts
    /\ configValidation.valid
    /\ projectConfig.value.database.port = ConfigFileDatabasePort

(***************************************************************************)
(* Claims about validateConfiguration, checked under SpecValidate          *)
(***************************************************************************)
PortInRange(port) == port \in 1..65535

\* The rules a configuration violates, the name rule being a parameter.
ViolatedRules(c, nameRuleViolated) ==
       {r \in {"name"} : nameRuleViolated}
    \cup {r \in {"template"} : c.template \notin {"basic", "api", "fullstack"}}
    \cup {r \in {"packageManager"} : c.packageManager \notin {"npm", "yarn", "pnpm"}}
    \cup {r \in {"database.type"} :
             Has(c, "database") /\ c.database.type \notin {"mysql", "postgresql", "mongodb"}}
    \cup {r \in {"database.port"} : Has(c, "database") /\ ~PortInRange(c.database.port)}
    \cup {r \in {"cache.type"} : Has(c, "cache") /\ c.cache.type # "redis"}
    \cup {r \in {"cache.port"} : Has(c, "cache") /\ ~PortInRange(c.cache.port)}
    \cup {r \in {"authentication.type"} :
             Has(c, "authentication") /\ c.authentication.type \notin {"jwt", "session"}}

ReportedRules == {configValidation.errors[i].rule : i \in 1..Len(configValidation.errors)}

\* exactly one error per rule of the set V, no other error, valid iff V is empty,
\* and a port error quotes the offending port
OneErrorPerRule(V) ==
    /\ ReportedRules = V
    /\ Len(configValidation.errors) = Cardinality(V)
    /\ configValidation.valid <=> V = {}
    /\ \A i \in 1..Len(configValidation.errors) :
          LET e == configValidation.errors[i]
          IN  /\ e.rule = "database.port" => e.number = config.database.port
              /\ e.rule = "cache.port" => e.number = config.cache.port

====
